---- MODULE Spec2Model ----
(***************************************************************************)
(* The discovery-and-registration engine of mcp_server: init_tools,        *)
(* init_prompts and init_resources walk a list of root directories, turn   *)
(* each candidate file into capabilities and register them; the handlers   *)
(* they install (get_prompt, get_resource) are invoked afterwards.         *)
(*                                                                         *)
(* One behaviour is one call of one init_* function (kind) followed by     *)
(* invocations of what it registered.  The file system is an input: the    *)
(* walker draws each root and each file it enumerates from small pools,    *)
(* and `roots` keeps what it has enumerated so far.                        *)
(*                                                                         *)
(* Strings the code inspects are sequences of atoms, so that a prefix      *)
(* test, a substring test or a str.format substitution is computed and     *)
(* not assumed: "_run" is <<"_", "run">>, ".github/io.py" is               *)
(* <<".git", "hub", "/", "io", ".py">>, "Hello {name}" is                  *)
(* <<[lit |-> "Hello "], [ph |-> "name"]>>.                                *)
(***************************************************************************)
EXTENDS Naturals, Sequences, FiniteSets, TLC

\* Bounds of the model.
MaxDirs == 1
MaxFiles == 2
MaxCalls == 1

VARIABLES
    kind,            \* which init_* function this behaviour calls
    pc,              \* "dirs": top of the loop over roots; "files": inside rglob;
                     \* "done": the manager was returned; "raised": an exception escaped
    dirsLeft,        \* entries of the directory list not yet visited
    roots,           \* what the walker has enumerated: a sequence of roots with their files
    log,             \* the lines printed, in order
    _tools,          \* ToolManager._tools: name -> registered endpoint
    _templates,      \* PromptManager._templates: name -> PromptTemplate
    mcpPrompts,      \* the protocol layer's prompt handlers: name -> get_prompt closure
    _resources,      \* ResourceManager._resources: uri -> the record cached for it
    _last_modified,  \* ResourceManager._last_modified: uri -> modification time
    mcpResources,    \* the protocol layer's resource providers: uri -> get_resource closure
    calls,           \* provider invocations so far
    response         \* what the last invoked handler returned and printed

vars == <<kind, pc, dirsLeft, roots, log, _tools, _templates, mcpPrompts,
          _resources, _last_modified, mcpResources, calls, response>>

None == [none |-> TRUE]

promptVars == <<_templates, mcpPrompts>>
resourceVars == <<_resources, _last_modified, mcpResources, calls>>

\* ----------------------------------------------------------------- helpers

\* `pattern in s` for strings as sequences of atoms.
IsInfix(pattern, s) ==
    \E i \in 0..Len(s) :
        /\ i + Len(pattern) <= Len(s)
        /\ \A j \in 1..Len(pattern) : s[i + j] = pattern[j]

\* str(path)
Str(path) == path.dirs \o <<path.stem, path.suffix>>

\* name.startswith('_')
StartsWithUnderscore(name) == Len(name) > 0 /\ name[1] = "_"

FilesSeen == LET n[i \in 0..Len(roots)] ==
                     IF i = 0 THEN 0 ELSE n[i - 1] + Len(roots[i].files)
             IN  n[Len(roots)]

\* The file being added to the root under scan.
AddFile(f) ==
    [roots EXCEPT ![Len(roots)].files = Append(@, f)]

\* ------------------------------------------------------------------- tools

ToolExcludePatterns == {<<"__pycache__">>, <<".git">>, <<"__init__", ".py">>}

\* ToolManager.should_exclude
ToolShouldExclude(path) ==
    \E pattern \in ToolExcludePatterns : IsInfix(pattern, Str(path))

\* module_name = f"mcp_server.tools.{file_path.stem}"
ModuleName(path) == <<"mcp_server.tools.", path.stem>>

\* What rglob("*.py") can yield under a tool directory: calc.py,
\* .github/io.py and __init__.py.
ToolPaths ==
    { [dirs |-> <<>>, stem |-> "calc", suffix |-> ".py"],
      [dirs |-> <<".git", "hub", "/">>, stem |-> "io", suffix |-> ".py"],
      [dirs |-> <<>>, stem |-> "__init__", suffix |-> ".py"] }

\* The names a loaded unit may bind at top level: two functions of its own, a
\* private function of its own, a function imported from another module, a
\* class of its own, and a function of its own that the protocol layer's
\* adapter refuses (mcp.tool(name)(obj) raises).
MemberPool(path) ==
    { [name |-> <<"run">>,
       obj |-> [kind |-> "function", module |-> ModuleName(path), adapts |-> TRUE]],
      [name |-> <<"fetch">>,
       obj |-> [kind |-> "function", module |-> ModuleName(path), adapts |-> TRUE]],
      [name |-> <<"_", "run">>,
       obj |-> [kind |-> "function", module |-> ModuleName(path), adapts |-> TRUE]],
      [name |-> <<"helper">>,
       obj |-> [kind |-> "function", module |-> <<"shared.util">>, adapts |-> TRUE]],
      [name |-> <<"Tool">>,
       obj |-> [kind |-> "class", module |-> ModuleName(path), adapts |-> TRUE]],
      [name |-> <<"broken">>,
       obj |-> [kind |-> "function", module |-> ModuleName(path), adapts |-> FALSE]] }

\* The namespaces drawn: empty, one member, or `run` beside one other member.
Namespaces(path) ==
    {ns \in SUBSET MemberPool(path) :
        \/ Cardinality(ns) <= 1
        \/ Cardinality(ns) = 2 /\ \E m \in ns : m.name = <<"run">>}

\* inspect.getmembers returns the members sorted by name.
MemberOrder ==
    << <<"Tool">>, <<"_", "run">>, <<"broken">>, <<"fetch">>, <<"helper">>, <<"run">> >>

\* The condition without its test of the origin module.
EligibleNoOriginCheck(m, path) ==
    /\ m.obj.kind = "function"
    /\ ~StartsWithUnderscore(m.name)

\* The condition of register_tools: a function, not private, defined in this module.
Eligible(m, path) ==
    /\ m.obj.kind = "function"
    /\ ~StartsWithUnderscore(m.name)
    /\ m.obj.module = ModuleName(path)

\* ToolManager.register_tools(mcp, module): every eligible member is handed to
\* mcp.tool(name); a registration that raises is caught and printed; the
\* others are stored under their name.
RegisterTools(file, at) ==
    LET ok == {m \in file.members : Eligible(m, file.path) /\ m.obj.adapts}
        errs == SelectSeq(MemberOrder,
                   LAMBDA n : \E m \in file.members :
                       m.name = n /\ Eligible(m, file.path) /\ ~m.obj.adapts)
        names == {m.name : m \in ok}
    IN  /\ _tools' = [n \in DOMAIN _tools \cup names |->
                        IF n \in names
                        THEN [at |-> at, path |-> file.path,
                              obj |-> (CHOOSE m \in ok : m.name = n).obj]
                        ELSE _tools[n]]
        /\ log' = log \o [i \in 1..Len(errs) |->
                            [type |-> "register", at |-> at, name |-> errs[i]]]

\* for tool_dir in tool_dirs: if not tool_dir.exists(): print(...); continue
ToolDirMissing ==
    /\ kind = "tools" /\ pc = "dirs" /\ dirsLeft > 0
    /\ roots' = Append(roots, [exists |-> FALSE, files |-> <<>>])
    /\ log' = Append(log, [type |-> "dir", at |-> <<Len(roots) + 1, 0>>])
    /\ dirsLeft' = dirsLeft - 1
    /\ UNCHANGED <<kind, pc, _tools, promptVars, resourceVars, response>>

ToolDirEnter ==
    /\ kind = "tools" /\ pc = "dirs" /\ dirsLeft > 0
    /\ roots' = Append(roots, [exists |-> TRUE, files |-> <<>>])
    /\ pc' = "files"
    /\ UNCHANGED <<kind, dirsLeft, log, _tools, promptVars, resourceVars, response>>

\* if not file_path.is_file() or manager.should_exclude(file_path): continue
\* The entries skipped are a directory whose name ends in .py, or a file on
\* an excluded path.
ToolFileSkip ==
    /\ kind = "tools" /\ pc = "files" /\ FilesSeen < MaxFiles
    /\ \E path \in ToolPaths, isFile \in BOOLEAN :
          /\ ~isFile \/ ToolShouldExclude(path)
          /\ ~isFile => ~ToolShouldExclude(path)
          /\ roots' = AddFile([path |-> path, isFile |-> isFile, load |-> "none",
                               members |-> {}])
    /\ UNCHANGED <<kind, pc, dirsLeft, log, _tools, promptVars, resourceVars, response>>

\* The load raises and is caught, but nothing is printed.
ToolLoadFailSilent ==
    /\ kind = "tools" /\ pc = "files" /\ FilesSeen < MaxFiles
    /\ \E path \in ToolPaths :
          /\ ~ToolShouldExclude(path)
          /\ roots' = AddFile([path |-> path, isFile |-> TRUE, load |-> "fail",
                               members |-> {}])
    /\ UNCHANGED <<kind, pc, dirsLeft, log, _tools, promptVars, resourceVars, response>>

\* module = manager.load_module(file_path): the load raises, which is caught
\* and printed, and None is returned.
ToolLoadFail ==
    /\ kind = "tools" /\ pc = "files" /\ FilesSeen < MaxFiles
    /\ \E path \in ToolPaths :
          /\ ~ToolShouldExclude(path)
          /\ roots' = AddFile([path |-> path, isFile |-> TRUE, load |-> "fail",
                               members |-> {}])
          /\ log' = Append(log, [type |-> "load",
                                 at |-> <<Len(roots), Len(roots[Len(roots)].files) + 1>>])
    /\ UNCHANGED <<kind, pc, dirsLeft, _tools, promptVars, resourceVars, response>>

\* module = manager.load_module(file_path); if module: manager.register_tools(mcp, module)
ToolLoadAndRegister ==
    /\ kind = "tools" /\ pc = "files" /\ FilesSeen < MaxFiles
    /\ \E path \in ToolPaths :
          /\ ~ToolShouldExclude(path)
          /\ \E ns \in Namespaces(path) :
                LET file == [path |-> path, isFile |-> TRUE, load |-> "ok",
                             members |-> ns]
                IN  /\ roots' = AddFile(file)
                    /\ RegisterTools(file, <<Len(roots), Len(roots[Len(roots)].files) + 1>>)
    /\ UNCHANGED <<kind, pc, dirsLeft, promptVars, resourceVars, response>>

\* rglob is exhausted: on to the next directory.
ToolDirExhausted ==
    /\ kind = "tools" /\ pc = "files"
    /\ pc' = "dirs"
    /\ dirsLeft' = dirsLeft - 1
    /\ UNCHANGED <<kind, roots, log, _tools, promptVars, resourceVars, response>>

\* return manager
ToolReturn ==
    /\ kind = "tools" /\ pc = "dirs" /\ dirsLeft = 0
    /\ pc' = "done"
    /\ UNCHANGED <<kind, dirsLeft, roots, log, _tools, promptVars, resourceVars, response>>

ToolNext ==
    \/ ToolDirMissing
    \/ ToolDirEnter
    \/ ToolFileSkip
    \/ ToolLoadFail
    \/ ToolLoadAndRegister
    \/ ToolDirExhausted
    \/ ToolReturn

\* ----------------------------------------------------------------- prompts

PromptExcludePatterns == {<<"__pycache__">>, <<".git">>}

\* PromptManager.should_exclude
PromptShouldExclude(path) ==
    \E pattern \in PromptExcludePatterns : IsInfix(pattern, Str(path))

\* What rglob("*.yaml") can yield under a template directory: greet.yaml (a
\* file, or a directory of that name) and .github/ci.yaml.
PromptEntries ==
    { [path |-> [dirs |-> <<>>, stem |-> "greet", suffix |-> ".yaml"], isFile |-> TRUE],
      [path |-> [dirs |-> <<>>, stem |-> "greet", suffix |-> ".yaml"], isFile |-> FALSE],
      [path |-> [dirs |-> <<".git", "hub", "/">>, stem |-> "ci", suffix |-> ".yaml"],
       isFile |-> TRUE] }

\* The fields of the dataclass PromptTemplate, and those without a default.
PromptFields == {"name", "description", "arguments", "system_prompt", "messages"}
PromptRequired == {"name", "description"}

\* Texts with placeholders: "Hello {name}", "About {topic}", "{name}'s guide".
Hello == <<[t |-> "lit", v |-> "Hello "], [t |-> "ph", v |-> "name"]>>
About == <<[t |-> "lit", v |-> "About "], [t |-> "ph", v |-> "topic"]>>
Guide == <<[t |-> "ph", v |-> "name"], [t |-> "lit", v |-> "'s guide"]>>

Msgs == <<[role |-> "user", content |-> Hello], [role |-> "assistant", content |-> About]>>

\* arguments: `name` is required, `topic` is optional (required defaults to False).
Declared == <<[name |-> "name", required |-> TRUE],
              [name |-> "topic", description |-> "subject"]>>
\* An argument entry without a name.
Nameless == <<[description |-> "free text"]>>

TemplateNames == {"greet", "ask"}

\* The mappings a template file may hold.
PromptMappings ==
    {[name |-> n, description |-> "d", arguments |-> Declared, messages |-> Msgs] :
        n \in TemplateNames}
    \cup
    {[name |-> n, description |-> "d", arguments |-> Declared, system_prompt |-> Guide,
      messages |-> Msgs] : n \in TemplateNames}
    \cup
    { [name |-> "greet", description |-> "d",
       messages |-> <<[role |-> "user", content |-> Hello]>>],
      [name |-> "ask", description |-> "d", arguments |-> Nameless, messages |-> Msgs],
      [description |-> "d", messages |-> Msgs],
      [name |-> "ask", messages |-> Msgs],
      [name |-> "ask", description |-> "d"] }

\* yaml.safe_load(file_path.read_text()): it raises, or yields a document that
\* is no mapping, or yields a mapping.
PromptContents ==
    {[yaml |-> "error"], [yaml |-> "scalar"]}
    \cup {[yaml |-> "mapping", map |-> m] : m \in PromptMappings}

\* Whether PromptTemplate(**content) constructs: content is a mapping, every
\* key is a field, and every field without a default is given.
Constructs(content) ==
    /\ content.yaml = "mapping"
    /\ DOMAIN content.map \subseteq PromptFields
    /\ PromptRequired \subseteq DOMAIN content.map

\* PromptTemplate(**content), of the file at `at`.  arguments and system_prompt
\* are only ever tested for truth, so None and the empty value are one here;
\* messages is iterated, so None (hasMessages = FALSE) is kept apart.
PromptTemplate(map, at) ==
    [name |-> map.name,
     description |-> map.description,
     arguments |-> IF "arguments" \in DOMAIN map THEN map.arguments ELSE <<>>,
     system_prompt |-> IF "system_prompt" \in DOMAIN map THEN map.system_prompt ELSE <<>>,
     hasMessages |-> "messages" \in DOMAIN map,
     messages |-> IF "messages" \in DOMAIN map THEN map.messages ELSE <<>>,
     file |-> at]

\* arg["name"] raises KeyError for an entry without a name.
PromptArgsRaise(template) ==
    \E i \in 1..Len(template.arguments) : "name" \notin DOMAIN template.arguments[i]

\* prompt_args of register_prompt.
PromptArgs(template) ==
    [i \in 1..Len(template.arguments) |->
        LET arg == template.arguments[i]
        IN  [name |-> arg.name,
             description |-> IF "description" \in DOMAIN arg THEN <<arg.description>> ELSE <<>>,
             required |-> IF "required" \in DOMAIN arg THEN arg.required ELSE FALSE]]

\* args = arguments or {}
ArgKeys(arguments) == IF arguments = None THEN {} ELSE DOMAIN arguments

\* The text used as it is, .format(**args) left out.
FormatForgotten(text, arguments) ==
    [ok |-> TRUE, text |-> [i \in 1..Len(text) |-> text[i].v]]

\* text.format(**args): KeyError on the first placeholder args lacks, else the
\* text with each placeholder replaced by its value.
Format(text, arguments) ==
    LET missing == {i \in 1..Len(text) :
                       text[i].t = "ph" /\ text[i].v \notin ArgKeys(arguments)}
    IN  IF missing # {}
        THEN [ok |-> FALSE,
              err |-> <<"'", text[CHOOSE i \in missing : \A j \in missing : i <= j].v, "'">>]
        ELSE [ok |-> TRUE,
              text |-> [i \in 1..Len(text) |->
                          IF text[i].t = "ph" THEN arguments[text[i].v] ELSE text[i].v]]

\* for msg in template.messages: messages.append(...), from entry i on.
RECURSIVE RenderMessages(_, _, _, _)
RenderMessages(msgs, arguments, i, acc) ==
    IF i > Len(msgs)
    THEN [ok |-> TRUE, messages |-> acc]
    ELSE LET r == Format(msgs[i].content, arguments)
         IN  IF r.ok
             THEN RenderMessages(msgs, arguments, i + 1,
                                 Append(acc, [role |-> msgs[i].role, text |-> r.text]))
             ELSE [ok |-> FALSE, messages |-> acc, err |-> r.err]

\* The try block of get_prompt: the messages list as built so far, and the
\* exception if one was raised.
Render(template, arguments) ==
    LET s == Format(template.system_prompt, arguments)
        start == IF template.system_prompt = <<>>
                 THEN <<>>
                 ELSE <<[role |-> "system", text |-> s.text]>>
    IN  IF template.system_prompt # <<>> /\ ~s.ok
        THEN [ok |-> FALSE, messages |-> <<>>, err |-> s.err]
        ELSE IF ~template.hasMessages
        THEN [ok |-> FALSE, messages |-> start,
              err |-> <<"'NoneType' object is not iterable">>]
        ELSE RenderMessages(template.messages, arguments, 1, start)

\* The message of the except block: text = f"Error: {str(e)}".
ErrorMessage(err) == [role |-> "system", text |-> <<"Error: ">> \o err]

\* The except block appending to the messages built so far.
get_promptKeepsPartial(handler, arguments) ==
    LET r == Render(handler.template, arguments)
    IN  [raised |-> FALSE,
         description |-> handler.template.description,
         arguments |-> handler.prompt_args,
         messages |-> IF r.ok THEN r.messages
                      ELSE Append(r.messages, ErrorMessage(r.err))]

\* The closure get_prompt installed by register_prompt, bound to its template
\* and prompt_args: the messages of the try block, or the one message of the
\* except block.
get_prompt(handler, arguments) ==
    LET r == Render(handler.template, arguments)
    IN  [raised |-> FALSE,
         description |-> handler.template.description,
         arguments |-> handler.prompt_args,
         messages |-> IF r.ok THEN r.messages ELSE <<ErrorMessage(r.err)>>]

\* The position of the next file of the root under scan.
NextAt == <<Len(roots), Len(roots[Len(roots)].files) + 1>>

\* A missing directory ends the walk: the manager is returned at once.
PromptDirMissingAborts ==
    /\ kind = "prompts" /\ pc = "dirs" /\ dirsLeft > 0
    /\ roots' = Append(roots, [exists |-> FALSE, files |-> <<>>])
    /\ log' = Append(log, [type |-> "dir", at |-> <<Len(roots) + 1, 0>>])
    /\ dirsLeft' = 0
    /\ pc' = "done"
    /\ UNCHANGED <<kind, _tools, promptVars, resourceVars, response>>

\* for template_dir in template_dirs: if not template_dir.exists(): print(...); continue
PromptDirMissing ==
    /\ kind = "prompts" /\ pc = "dirs" /\ dirsLeft > 0
    /\ roots' = Append(roots, [exists |-> FALSE, files |-> <<>>])
    /\ log' = Append(log, [type |-> "dir", at |-> <<Len(roots) + 1, 0>>])
    /\ dirsLeft' = dirsLeft - 1
    /\ UNCHANGED <<kind, pc, _tools, promptVars, resourceVars, response>>

PromptDirEnter ==
    /\ kind = "prompts" /\ pc = "dirs" /\ dirsLeft > 0
    /\ roots' = Append(roots, [exists |-> TRUE, files |-> <<>>])
    /\ pc' = "files"
    /\ UNCHANGED <<kind, dirsLeft, log, _tools, promptVars, resourceVars, response>>

\* if not file_path.is_file() or manager.should_exclude(file_path): continue
PromptFileSkip ==
    /\ kind = "prompts" /\ pc = "files" /\ FilesSeen < MaxFiles
    /\ \E e \in PromptEntries :
          /\ ~e.isFile \/ PromptShouldExclude(e.path)
          /\ roots' = AddFile([path |-> e.path, isFile |-> e.isFile,
                               content |-> [yaml |-> "unread"]])
    /\ UNCHANGED <<kind, pc, dirsLeft, log, _tools, promptVars, resourceVars, response>>

\* template = manager.load_template(file_path): parsing or construction
\* raises, which is caught and printed, and None is returned.
PromptLoadFail ==
    /\ kind = "prompts" /\ pc = "files" /\ FilesSeen < MaxFiles
    /\ \E e \in PromptEntries, content \in PromptContents :
          /\ e.isFile /\ ~PromptShouldExclude(e.path)
          /\ ~Constructs(content)
          /\ roots' = AddFile([path |-> e.path, isFile |-> TRUE, content |-> content])
          /\ log' = Append(log, [type |-> "template", at |-> NextAt])
    /\ UNCHANGED <<kind, pc, dirsLeft, _tools, promptVars, resourceVars, response>>

\* template = manager.load_template(file_path) stores the template under its
\* name; manager.register_prompt(mcp, template) builds prompt_args and hands
\* get_prompt to mcp.prompt(template.name).  What the protocol layer does with
\* a name it already holds is its own: it keeps its handler or replaces it.
PromptLoadAndRegister ==
    /\ kind = "prompts" /\ pc = "files" /\ FilesSeen < MaxFiles
    /\ \E e \in PromptEntries, content \in PromptContents, keep \in BOOLEAN :
          /\ e.isFile /\ ~PromptShouldExclude(e.path)
          /\ Constructs(content)
          /\ LET template == PromptTemplate(content.map, NextAt)
                 handler == [template |-> template, prompt_args |-> PromptArgs(template)]
             IN  /\ ~PromptArgsRaise(template)
                 /\ roots' = AddFile([path |-> e.path, isFile |-> TRUE, content |-> content])
                 /\ _templates' = [n \in DOMAIN _templates \cup {template.name} |->
                                     IF n = template.name THEN template ELSE _templates[n]]
                 /\ mcpPrompts' = [n \in DOMAIN mcpPrompts \cup {template.name} |->
                                     IF n = template.name
                                        /\ ~(keep /\ n \in DOMAIN mcpPrompts)
                                     THEN handler ELSE mcpPrompts[n]]
    /\ UNCHANGED <<kind, pc, dirsLeft, log, _tools, resourceVars, response>>

\* The same, for a template with an argument entry without a name: the
\* template is stored, arg["name"] raises KeyError inside register_prompt, and
\* nothing catches it: the exception leaves init_prompts.
PromptRegisterRaises ==
    /\ kind = "prompts" /\ pc = "files" /\ FilesSeen < MaxFiles
    /\ \E e \in PromptEntries, content \in PromptContents :
          /\ e.isFile /\ ~PromptShouldExclude(e.path)
          /\ Constructs(content)
          /\ LET template == PromptTemplate(content.map, NextAt)
             IN  /\ PromptArgsRaise(template)
                 /\ roots' = AddFile([path |-> e.path, isFile |-> TRUE, content |-> content])
                 /\ _templates' = [n \in DOMAIN _templates \cup {template.name} |->
                                     IF n = template.name THEN template ELSE _templates[n]]
    /\ pc' = "raised"
    /\ UNCHANGED <<kind, dirsLeft, log, _tools, mcpPrompts, resourceVars, response>>

\* rglob is exhausted: on to the next directory.
PromptDirExhausted ==
    /\ kind = "prompts" /\ pc = "files"
    /\ pc' = "dirs"
    /\ dirsLeft' = dirsLeft - 1
    /\ UNCHANGED <<kind, roots, log, _tools, promptVars, resourceVars, response>>

\* return manager
PromptReturn ==
    /\ kind = "prompts" /\ pc = "dirs" /\ dirsLeft = 0
    /\ pc' = "done"
    /\ UNCHANGED <<kind, dirsLeft, roots, log, _tools, promptVars, resourceVars, response>>

\* The maps of argument values a client sends: none, the required one, both.
PromptArguments ==
    {None, [name |-> "Ada"], [name |-> "Ada", topic |-> "TLA"]}

\* The protocol layer invokes the handler it holds for a name.
PromptInvoke ==
    /\ kind = "prompts" /\ pc = "done"
    /\ \E name \in DOMAIN mcpPrompts, arguments \in PromptArguments :
          response' = [handler |-> mcpPrompts[name], arguments |-> arguments,
                       out |-> get_prompt(mcpPrompts[name], arguments)]
    /\ UNCHANGED <<kind, pc, dirsLeft, roots, log, _tools, promptVars, resourceVars>>

PromptNext ==
    \/ PromptDirMissing
    \/ PromptDirEnter
    \/ PromptFileSkip
    \/ PromptLoadFail
    \/ PromptLoadAndRegister
    \/ PromptRegisterRaises
    \/ PromptDirExhausted
    \/ PromptReturn
    \/ PromptInvoke

\* --------------------------------------------------------------- resources

\* ResourceConfig
uri_prefix == "file://"
default_mime_type == "text/plain"
ResourceExcludePatterns == {<<"__pycache__">>, <<".git">>, <<".mypy_cache">>}

\* ResourceManager.should_exclude
ResourceShouldExclude(path) ==
    \E pattern \in ResourceExcludePatterns : IsInfix(pattern, Str(path))

\* source_dir.parent.name of the roots drawn.
ParentNames == {"srv", "app"}

\* What rglob("*") can yield under a source root: data.json, sub/data.json
\* (the same file name in a subdirectory), BROKEN.JSON (not well-formed JSON),
\* notes.txt, the directory sub and .git/config.
ResourceEntries ==
    { [path |-> [dirs |-> <<>>, stem |-> "data", suffix |-> ".json"],
       isFile |-> TRUE, wellFormed |-> TRUE],
      [path |-> [dirs |-> <<"sub", "/">>, stem |-> "data", suffix |-> ".json"],
       isFile |-> TRUE, wellFormed |-> TRUE],
      [path |-> [dirs |-> <<>>, stem |-> "BROKEN", suffix |-> ".JSON"],
       isFile |-> TRUE, wellFormed |-> FALSE],
      [path |-> [dirs |-> <<>>, stem |-> "notes", suffix |-> ".txt"],
       isFile |-> TRUE, wellFormed |-> FALSE],
      [path |-> [dirs |-> <<>>, stem |-> "sub", suffix |-> ""],
       isFile |-> FALSE, wellFormed |-> FALSE],
      [path |-> [dirs |-> <<".git", "/">>, stem |-> "config", suffix |-> ""],
       isFile |-> TRUE, wellFormed |-> FALSE] }

\* file_path.suffix.lower()
Lower(suffix) ==
    CASE suffix = ".JSON" -> ".json"
      [] OTHER -> suffix

\* file_path.stem.replace('_', ' ').title()
Title(stem) ==
    CASE stem = "data" -> "Data"
      [] stem = "BROKEN" -> "Broken"
      [] stem = "notes" -> "Notes"
      [] OTHER -> stem

\* ResourceConfig.mime_types
mime_types ==
    [s \in {".json", ".yaml", ".yml", ".md", ".txt", ".py", ".css", ".html", ".js"} |->
        CASE s = ".json" -> "application/json"
          [] s \in {".yaml", ".yml"} -> "application/yaml"
          [] s = ".md" -> "text/markdown"
          [] s = ".txt" -> "text/plain"
          [] s = ".py" -> "text/x-python"
          [] s = ".css" -> "text/css"
          [] s = ".html" -> "text/html"
          [] s = ".js" -> "application/javascript"]

\* ResourceManager.get_mime_type
get_mime_type(path) ==
    IF Lower(path.suffix) \in DOMAIN mime_types
    THEN mime_types[Lower(path.suffix)]
    ELSE default_mime_type

\* ResourceManager.parse_structured_content: the text of a .json, .yaml or
\* .yml file is parsed and serialized again; a text that does not parse is
\* returned as it is, with a line printed; any other text is returned as it is.
parse_structured_content(file, content) ==
    IF Lower(file.path.suffix) \in {".json", ".yaml", ".yml"}
    THEN IF file.wellFormed
         THEN [text |-> [content EXCEPT !.form = "canonical"], printed |-> <<>>]
         ELSE [text |-> content, printed |-> <<[type |-> "parse", at |-> file.at]>>]
    ELSE [text |-> content, printed |-> <<>>]

\* resource_uri = f"{uri_prefix}{source_parent}/{file_path.relative_to(file_path.parent)}"
ResourceUri(source_parent, path) ==
    <<uri_prefix, source_parent, "/", path.stem, path.suffix>>

\* The record of the try block of get_resource.
Resource(provider, text) ==
    [uri |-> provider.uri,
     name |-> <<provider.source_parent, ": ", Title(provider.file.path.stem)>>,
     description |-> <<"Content from ", provider.source_parent, "/",
                       provider.file.path.stem, provider.file.path.suffix>>,
     mimeType |-> get_mime_type(provider.file.path),
     text |-> text]

\* The except block's record without the URI.
ErrorResourceNoUri(provider, err) ==
    [uri |-> <<>>,
     name |-> <<"Error: ", provider.file.path.stem, provider.file.path.suffix>>,
     text |-> <<"Failed to load resource: ", err>>]

\* The record of the except block of get_resource.
ErrorResource(provider, err) ==
    [uri |-> provider.uri,
     name |-> <<"Error: ", provider.file.path.stem, provider.file.path.suffix>>,
     text |-> <<"Failed to load resource: ", err>>]

\* What the file system answers when a provider runs: read_text raises (an I/O
\* or a decode error), or it returns the text and stat then returns the
\* modification time, or it returns the text and stat raises (the file is gone).
DiskAnswers ==
    { [read |-> "error", stat |-> "unused"],
      [read |-> "ok", stat |-> "ok"],
      [read |-> "ok", stat |-> "error"] }

\* file_path.read_text(encoding="utf-8"): the text of the provider's own file.
ReadText(provider) == [of |-> provider.file.at, form |-> "raw"]

\* st_mtime of the provider's file.
MTime(provider) == [mtimeOf |-> provider.file.at]

Put(dict, key, value) ==
    [k \in DOMAIN dict \cup {key} |-> IF k = key THEN value ELSE dict[k]]

\* for source_dir in source_dirs: if not source_dir.exists(): print(...); continue
ResourceDirMissing ==
    /\ kind = "resources" /\ pc = "dirs" /\ dirsLeft > 0
    /\ roots' = Append(roots, [exists |-> FALSE, parent |-> "", files |-> <<>>])
    /\ log' = Append(log, [type |-> "dir", at |-> <<Len(roots) + 1, 0>>])
    /\ dirsLeft' = dirsLeft - 1
    /\ UNCHANGED <<kind, pc, _tools, promptVars, resourceVars, response>>

\* source_parent = source_dir.parent.name
ResourceDirEnter ==
    /\ kind = "resources" /\ pc = "dirs" /\ dirsLeft > 0
    /\ \E parent \in ParentNames :
          roots' = Append(roots, [exists |-> TRUE, parent |-> parent, files |-> <<>>])
    /\ pc' = "files"
    /\ UNCHANGED <<kind, dirsLeft, log, _tools, promptVars, resourceVars, response>>

\* if file_path.is_file(): ... (a directory is passed over)
ResourceNotFile ==
    /\ kind = "resources" /\ pc = "files" /\ FilesSeen < MaxFiles
    /\ \E e \in ResourceEntries :
          /\ ~e.isFile
          /\ roots' = AddFile([path |-> e.path, isFile |-> FALSE,
                               wellFormed |-> e.wellFormed, at |-> NextAt])
    /\ UNCHANGED <<kind, pc, dirsLeft, log, _tools, promptVars, resourceVars, response>>

\* ResourceManager.register_resource(mcp, file_path, source_parent): nothing
\* for an excluded path; else get_resource, bound to this file and its URI, is
\* handed to mcp.resource(uri=resource_uri).  What the protocol layer does
\* with a URI it already holds is its own: it keeps its provider or replaces it.
register_resource(file, source_parent, keep) ==
    IF ResourceShouldExclude(file.path)
    THEN UNCHANGED mcpResources
    ELSE LET uri == ResourceUri(source_parent, file.path)
             provider == [uri |-> uri, file |-> file, source_parent |-> source_parent]
         IN  mcpResources' = IF keep /\ uri \in DOMAIN mcpResources
                             THEN mcpResources
                             ELSE Put(mcpResources, uri, provider)

\* if file_path.is_file(): manager.register_resource(mcp, file_path, source_parent)
ResourceRegister ==
    /\ kind = "resources" /\ pc = "files" /\ FilesSeen < MaxFiles
    /\ \E e \in ResourceEntries, keep \in BOOLEAN :
          /\ e.isFile
          /\ LET file == [path |-> e.path, isFile |-> TRUE,
                          wellFormed |-> e.wellFormed, at |-> NextAt]
             IN  /\ roots' = AddFile(file)
                 /\ register_resource(file, roots[Len(roots)].parent, keep)
    /\ UNCHANGED <<kind, pc, dirsLeft, log, _tools, promptVars,
                   _resources, _last_modified, calls, response>>

\* rglob is exhausted: on to the next directory.
ResourceDirExhausted ==
    /\ kind = "resources" /\ pc = "files"
    /\ pc' = "dirs"
    /\ dirsLeft' = dirsLeft - 1
    /\ UNCHANGED <<kind, roots, log, _tools, promptVars, resourceVars, response>>

\* return manager
ResourceReturn ==
    /\ kind = "resources" /\ pc = "dirs" /\ dirsLeft = 0
    /\ pc' = "done"
    /\ UNCHANGED <<kind, dirsLeft, roots, log, _tools, promptVars, resourceVars, response>>

\* The closure get_resource installed by register_resource.  In the try
\* block the record is cached before stat is called, so a stat that raises
\* leaves the cached record behind and the except block answers.
get_resource(provider, disk) ==
    LET parsed == parse_structured_content(provider.file, ReadText(provider))
        resource == Resource(provider, parsed.text)
    IN  IF disk.read = "error"
        THEN /\ response' = [provider |-> provider, disk |-> disk, raised |-> FALSE,
                             out |-> ErrorResource(provider, "read_text failed"),
                             printed |-> <<[type |-> "read", at |-> provider.file.at]>>]
             /\ UNCHANGED <<_resources, _last_modified>>
        ELSE IF disk.stat = "error"
        THEN /\ _resources' = Put(_resources, provider.uri, resource)
             /\ UNCHANGED _last_modified
             /\ response' = [provider |-> provider, disk |-> disk, raised |-> FALSE,
                             out |-> ErrorResource(provider, "stat failed"),
                             printed |-> Append(parsed.printed,
                                                [type |-> "read", at |-> provider.file.at])]
        ELSE /\ _resources' = Put(_resources, provider.uri, resource)
             /\ _last_modified' = Put(_last_modified, provider.uri, MTime(provider))
             /\ response' = [provider |-> provider, disk |-> disk, raised |-> FALSE,
                             out |-> resource, printed |-> parsed.printed]

\* The protocol layer invokes the provider it holds for a URI.
ResourceInvoke ==
    /\ kind = "resources" /\ pc = "done" /\ calls < MaxCalls
    /\ \E uri \in DOMAIN mcpResources, disk \in DiskAnswers :
          get_resource(mcpResources[uri], disk)
    /\ calls' = calls + 1
    /\ UNCHANGED <<kind, pc, dirsLeft, roots, log, _tools, promptVars, mcpResources>>

ResourceNext ==
    \/ ResourceDirMissing
    \/ ResourceDirEnter
    \/ ResourceNotFile
    \/ ResourceRegister
    \/ ResourceDirExhausted
    \/ ResourceReturn
    \/ ResourceInvoke

\* ------------------------------------------------------------ specification

\* The directory list holds up to MaxDirs configured roots, and the default
\* directory is appended unless exclude_default.
Init ==
    /\ kind \in {"resources", "tools", "prompts"}
    /\ pc = "dirs"
    /\ \E n \in 0..MaxDirs, exclude_default \in BOOLEAN :
          dirsLeft = n + (IF exclude_default THEN 0 ELSE 1)
    /\ roots = <<>>
    /\ log = <<>>
    /\ _tools = <<>>
    /\ _templates = <<>>
    /\ mcpPrompts = <<>>
    /\ _resources = <<>>
    /\ _last_modified = <<>>
    /\ mcpResources = <<>>
    /\ calls = 0
    /\ response = None

Next == ResourceNext \/ ToolNext \/ PromptNext

Spec == Init /\ [][Next]_vars

\* One call of init_resources, of init_tools, of init_prompts.
InitResources == Init /\ kind = "resources"
InitTools == Init /\ kind = "tools"
InitPrompts == Init /\ kind = "prompts"

SpecResources == InitResources /\ [][ResourceNext]_vars
SpecTools == InitTools /\ [][ToolNext]_vars
SpecPrompts == InitPrompts /\ [][PromptNext]_vars

\* ------------------------------------------------------------------ claims

\* The positions of the files enumerated so far, and the file at a position.
Positions ==
    {at \in (1..Len(roots)) \X (1..MaxFiles + 1) : at[2] <= Len(roots[at[1]].files)}

FileAt(at) == roots[at[1]].files[at[2]]

LogCount(type) == Cardinality({i \in 1..Len(log) : log[i].type = type})

\* Tool files that loaded, and those whose load failed.
LoadedTools == {at \in Positions : FileAt(at).load = "ok"}
FailedTools == {at \in Positions : FileAt(at).load = "fail"}

\* The callables of a loaded unit that the specification calls eligible:
\* functions defined in the unit itself whose name is not private.
EligibleCallables(at) ==
    {m \in FileAt(at).members :
        /\ m.obj.kind = "function"
        /\ m.obj.module = <<"mcp_server.tools.", FileAt(at).path.stem>>
        /\ m.name[1] # "_"}

\* The eligible callables of all loaded units, each with the unit it is in.
EligibleExports ==
    UNION {{[at |-> at, member |-> m] : m \in EligibleCallables(at)} : at \in LoadedTools}

\* M of the claim: the eligible callables of all loaded units, counted per unit.
EligibleTotal == Cardinality(EligibleExports)

\* C1 as stated: when init_tools returns, it has registered exactly M
\* endpoints (M the eligible callables of the units that loaded, counted per
\* unit) and printed exactly K load warnings (K the units whose load failed).
\* It is stated here for the runs in which no registration failed, where it
\* is violated all the same.
C1_AsStated ==
    (kind = "tools" /\ pc = "done" /\ \A e \in EligibleExports : e.member.obj.adapts) =>
        /\ Cardinality(DOMAIN _tools) = EligibleTotal
        /\ LogCount("load") = Cardinality(FailedTools)

\* C1 amended: init_tools never raises; when it returns, the endpoints
\* registered are exactly the distinct names of the eligible callables whose
\* registration succeeded (one endpoint per name, however many units export
\* it), exactly one load warning was printed per unit whose load failed, and
\* one registration warning per eligible callable whose registration failed.
C1_Endpoints ==
    /\ kind = "tools" => pc # "raised"
    /\ (kind = "tools" /\ pc = "done") =>
          /\ DOMAIN _tools = {e.member.name : e \in {x \in EligibleExports : x.member.obj.adapts}}
          /\ LogCount("load") = Cardinality(FailedTools)
          /\ LogCount("register") =
                Cardinality({e \in EligibleExports : ~e.member.obj.adapts})

\* C1's case: a run that returned after one unit loaded with two eligible
\* callables and another unit failed to load.
C1_Witness ==
    /\ kind = "tools" /\ pc = "done"
    /\ EligibleTotal = 2
    /\ Cardinality(FailedTools) = 1
    /\ Cardinality(DOMAIN _tools) = 2

\* C3: every registered tool endpoint is a function defined in the unit it
\* was registered from (its origin module is that unit's module name), is a
\* member of that unit under the registered name, and has a name that does not
\* start with an underscore; no member whose origin module is another module
\* is registered.
C3_OnlyOwnPublicFunctions ==
    /\ \A n \in DOMAIN _tools :
          /\ _tools[n].obj.kind = "function"
          /\ _tools[n].obj.module = <<"mcp_server.tools.", _tools[n].path.stem>>
          /\ n[1] # "_"
          /\ _tools[n].at \in LoadedTools
          /\ FileAt(_tools[n].at).path = _tools[n].path
          /\ [name |-> n, obj |-> _tools[n].obj] \in FileAt(_tools[n].at).members
    /\ \A at \in LoadedTools : \A m \in FileAt(at).members :
          m.obj.module # <<"mcp_server.tools.", FileAt(at).path.stem>> =>
              ~(m.name \in DOMAIN _tools /\ _tools[m.name].at = at)

\* C3's case: a unit that binds both a function of its own and an imported
\* function was loaded, and only its own function is registered.
C3_Witness ==
    \E at \in LoadedTools :
        /\ \E m \in FileAt(at).members : m.name = <<"helper">>
        /\ <<"run">> \in DOMAIN _tools /\ _tools[<<"run">>].at = at
        /\ <<"helper">> \notin DOMAIN _tools

\* Template files the walk handed to load_template.
TemplateFiles ==
    {at \in Positions : kind = "prompts" /\ FileAt(at).content.yaml # "unread"}

\* A template file that is malformed or lacks one of name, description, messages.
MalformedOrIncomplete(at) ==
    \/ FileAt(at).content.yaml # "mapping"
    \/ ~({"name", "description", "messages"} \subseteq DOMAIN FileAt(at).content.map)

\* C2 as stated: a template file that is malformed or lacks any of name,
\* description or messages has no entry in the template registry and no
\* prompt handler registered.
C2_AsStated ==
    \A at \in TemplateFiles :
        MalformedOrIncomplete(at) =>
            /\ \A n \in DOMAIN _templates : _templates[n].file # at
            /\ \A n \in DOMAIN mcpPrompts : mcpPrompts[n].template.file # at

\* A valid template file: a mapping of the fields of PromptTemplate with name,
\* description and messages, each argument entry named.
ValidTemplate(at) ==
    /\ at \in TemplateFiles
    /\ ~MalformedOrIncomplete(at)
    /\ DOMAIN FileAt(at).content.map \subseteq PromptFields
    /\ "arguments" \in DOMAIN FileAt(at).content.map =>
          \A i \in 1..Len(FileAt(at).content.map.arguments) :
              "name" \in DOMAIN FileAt(at).content.map.arguments[i]

\* No other template file of the pass declares the same name.
UniqueName(at) ==
    \A other \in TemplateFiles \ {at} :
        (FileAt(other).content.yaml = "mapping"
         /\ "name" \in DOMAIN FileAt(other).content.map)
            => FileAt(other).content.map.name # FileAt(at).content.map.name

\* After the pass, every valid template file with a unique name has exactly
\* its own PromptTemplate in the registry and its own handler registered.
OneTemplatePerFile ==
    (kind = "prompts" /\ pc = "done") =>
        \A at \in TemplateFiles :
            (ValidTemplate(at) /\ UniqueName(at)) =>
                LET n == FileAt(at).content.map.name
                IN  /\ n \in DOMAIN _templates /\ _templates[n].file = at
                    /\ n \in DOMAIN mcpPrompts /\ mcpPrompts[n].template = _templates[n]

\* `out` is `text` with every placeholder replaced by its value in arguments.
Substituted(text, out, arguments) ==
    /\ Len(out) = Len(text)
    /\ \A i \in 1..Len(text) :
          IF text[i].t = "ph"
          THEN text[i].v \in ArgKeys(arguments) /\ out[i] = arguments[text[i].v]
          ELSE out[i] = text[i].v

\* `msgs` is the system-prompt message first (when the template has a system
\* prompt) and then one message per entry of messages, in order, each text substituted.
FullyRendered(template, msgs, arguments) ==
    LET k == IF template.system_prompt = <<>> THEN 0 ELSE 1
    IN  /\ Len(msgs) = k + Len(template.messages)
        /\ k = 1 => /\ msgs[1].role = "system"
                    /\ Substituted(template.system_prompt, msgs[1].text, arguments)
        /\ \A i \in 1..Len(template.messages) :
              /\ msgs[k + i].role = template.messages[i].role
              /\ Substituted(template.messages[i].content, msgs[k + i].text, arguments)

\* Every argument the template declares required is supplied.
RequiredSupplied(handler, arguments) ==
    \A i \in 1..Len(handler.prompt_args) :
        handler.prompt_args[i].required => handler.prompt_args[i].name \in ArgKeys(arguments)

\* The placeholders of the system prompt and of the messages of a template.
Placeholders(template) ==
    {template.system_prompt[i].v :
        i \in {j \in 1..Len(template.system_prompt) : template.system_prompt[j].t = "ph"}}
    \cup UNION {{template.messages[m].content[i].v :
                    i \in {j \in 1..Len(template.messages[m].content) :
                              template.messages[m].content[j].t = "ph"}} :
                m \in 1..Len(template.messages)}

\* A prompt handler has been invoked.
PromptInvoked == kind = "prompts" /\ response # None

RenderFails(template, arguments) ==
    \/ ~template.hasMessages
    \/ ~(Placeholders(template) \subseteq ArgKeys(arguments))

C8_AsStated == kind \in {"prompts", "resources"} => pc # "raised"

\* Resource files handed to mcp.resource, with the URI computed for each.
RegisteredFiles ==
    {at \in Positions :
        /\ kind = "resources"
        /\ FileAt(at).isFile
        /\ ~(\E pattern \in {<<"__pycache__">>, <<".git">>, <<".mypy_cache">>} :
                IsInfix(pattern, Str(FileAt(at).path)))}

UriOf(at) ==
    <<uri_prefix, roots[at[1]].parent, "/", FileAt(at).path.stem, FileAt(at).path.suffix>>

\* at was processed before other.
Before(at, other) ==
    at[1] < other[1] \/ (at[1] = other[1] /\ at[2] < other[2])

\* A provider has been invoked.
ResourceInvoked == kind = "resources" /\ response # None

\* C4 as stated: once two files with the same computed URI are registered,
\* a successful read of that URI returns the content of the file processed
\* most recently, and the registry holds a single record for the URI.
C4_AsStated ==
    (ResourceInvoked /\ response.disk = [read |-> "ok", stat |-> "ok"]) =>
        /\ \A at \in RegisteredFiles :
              UriOf(at) = response.out.uri => ~Before(response.out.text.of, at)
        /\ response.out.uri \in DOMAIN _resources
        /\ _resources[response.out.uri] = response.out

\* C9: a provider invocation never raises; when reading the file (or asking
\* for its modification time) fails it
\* returns a record with the URI the provider was registered under, a name
\* that begins with the error indicator followed by the file name, and the
\* error text as its body.
C9_ErrorRecord ==
    ResourceInvoked =>
        /\ ~response.raised
        /\ (response.disk.read = "error" \/ response.disk.stat = "error") =>
              /\ response.out.uri = response.provider.uri
              /\ response.out.uri \in DOMAIN mcpResources
              /\ mcpResources[response.out.uri] = response.provider
              /\ response.out.name[1] = "Error: "
              /\ response.out.name[2] = response.provider.file.path.stem
              /\ response.out.text[1] = "Failed to load resource: "

\* C9's case: a provider was invoked and reading its file failed.
C9_Witness ==
    /\ ResourceInvoked
    /\ response.disk.read = "error"
    /\ response.out.name[1] = "Error: "

\* C10 as stated: in every reachable state a URI has a cached record exactly
\* when it has a lastModified entry.
C10_AsStated == DOMAIN _resources = DOMAIN _last_modified

\* The mappings capabilities are registered in.
Registries ==
    <<_tools, _templates, mcpPrompts, mcpResources, _resources, _last_modified>>

\* C7: in each of init_resources, init_tools and init_prompts, the step that
\* meets a configured root that does not exist registers nothing, prints
\* exactly one warning, and goes on to the next root with everything else as
\* it was, as if the root had not been in the list; no file is ever
\* enumerated under such a root.
C7_MissingRootSkipped ==
    [][ /\ (Len(roots') = Len(roots) + 1 /\ ~roots'[Len(roots')].exists) =>
              /\ Registries' = Registries
              /\ Len(log') = Len(log) + 1
              /\ log'[Len(log')].type = "dir"
              /\ \A i \in 1..Len(log) : log'[i] = log[i]
              /\ pc = "dirs" /\ pc' = "dirs"
              /\ dirsLeft' = dirsLeft - 1
              /\ response' = response
        /\ \A r \in 1..Len(roots') : ~roots'[r].exists => roots'[r].files = <<>>
      ]_vars

\* C7's case: a call that met a missing root, then an existing one, and
\* returned with a capability registered from the existing root.
C7_Witness ==
    /\ pc = "done"
    /\ Len(roots) = 2
    /\ ~roots[1].exists /\ roots[2].exists
    /\ LogCount("dir") = 1
    /\ DOMAIN mcpResources # {}

====
